---- MODULE Spec2Model ----
(***************************************************************************)
(* Model of extensions/main.go: the /api/verve/accept handler backed by a  *)
(* shared Redis store (SETNX with a one-minute TTL), the per-instance      *)
(* ticker goroutine that counts, publishes and deletes the keys, and the   *)
(* start-up sequence of main (Redis ping, Kafka retry loop, topic          *)
(* creation, goroutine start, ListenAndServe).                             *)
(*                                                                         *)
(* Strings that the code parses or formats (the id parameter, the Redis    *)
(* key) are sequences of one-character strings.  Time is abstracted: a     *)
(* ticker tick and the expiry of a key's TTL are steps that may happen at  *)
(* any moment.                                                             *)
(*                                                                         *)
(* Spec and its siblings (SpecGone, SpecCount, SpecWindow, SpecSend,       *)
(* SpecReq, SpecDrop, SpecTick) run the same serving system: every         *)
(* instance has completed main.  They differ only in which record of past  *)
(* events they keep (watch); the program's own state and steps are the     *)
(* same in all of them.  SpecForeign starts that system on a Redis         *)
(* database that holds another application's key, SpecSingle runs it with  *)
(* one instance left, no TTL running out and no outage, and SpecBoot runs  *)
(* main of every instance from its first line.                             *)
(*                                                                         *)
(* SpecBase runs the baseline program (main.go of the parent folder),      *)
(* which keeps the ids in a sync.Map guarded by a mutex.                   *)
(***************************************************************************)
EXTENDS Integers, Sequences, FiniteSets, TLC

\* ------------------------------------------------------------------ bounds
MaxId == 2          \* identifiers 1..MaxId are sent by clients
NumReq == 2         \* request handlers that can be in flight at once
NumInst == 2        \* service instances sharing the store and the broker

\* ------------------------------------------------------- program constants
KafkaRetries == 10  \* createKafkaTopic: waitForKafka(broker, 10, ...)

Ids == 1..MaxId
Req == 1..NumReq
Inst == 1..NumInst

\* the instance whose HTTP server runs handler slot r
InstOf(r) == ((r - 1) % NumInst) + 1

\* ------------------------------------------------------------ strconv
Digits == <<"0", "1", "2", "3", "4", "5", "6", "7", "8", "9">>

IsDigit(c) == \E d \in 1..10 : Digits[d] = c

DigitVal(c) == (CHOOSE d \in 1..10 : Digits[d] = c) - 1

RECURSIVE ParseDigits(_)
ParseDigits(s) ==
    IF s = <<>> THEN 0
    ELSE 10 * ParseDigits(SubSeq(s, 1, Len(s) - 1)) + DigitVal(s[Len(s)])

\* strconv.Atoi: optional sign, then at least one decimal digit
Atoi(s) ==
    LET signed == s # <<>> /\ s[1] \in {"+", "-"}
        body == IF signed THEN Tail(s) ELSE s
        bad == body = <<>> \/ \E n \in 1..Len(body) : ~IsDigit(body[n])
    IN  IF bad THEN [err |-> TRUE, val |-> 0]
        ELSE [err |-> FALSE,
              val |-> IF signed /\ s[1] = "-" THEN 0 - ParseDigits(body)
                      ELSE ParseDigits(body)]

RECURSIVE FormatDigits(_)
FormatDigits(n) ==
    IF n < 10 THEN <<Digits[n + 1]>>
    ELSE FormatDigits(n \div 10) \o <<Digits[(n % 10) + 1]>>

\* strconv.Itoa
Itoa(n) == IF n < 0 THEN <<"-">> \o FormatDigits(0 - n) ELSE FormatDigits(n)

\* ------------------------------------------------------------ requests
\* the id parameter as it arrives (query.Get returns "" when it is missing)
IdParams ==
    {<<>>, <<"a", "b", "c">>, <<"-", "3">>, <<"0">>, <<"+", "1">>, <<"0", "2">>}
        \cup {Itoa(n) : n \in Ids}

\* GET with every id parameter, with and without an endpoint, and two POSTs
Requests ==
    [method : {"GET"}, idParam : IdParams, endpoint : {"", "cb"}]
        \cup [method : {"POST"}, idParam : {<<>>, <<"1">>}, endpoint : {""}]

NoReq == [method |-> "", idParam |-> <<>>, endpoint |-> ""]

ClaimKeys == {Itoa(n) : n \in Ids}

\* a key some other application keeps in the same Redis database
ForeignKeys == {<<"c", "f", "g">>}

Keys == ClaimKeys \cup ForeignKeys

VARIABLES
    \* the shared Redis database
    store,          \* the set of keys it holds
    storeUp,        \* whether commands reach it
    \* one entry per handler slot
    pc,             \* "idle", "claim" (SETNX issued), "keys" (KEYS issued), "post"
    req,            \* the request being validated or claimed, NoReq otherwise
    id,             \* the parsed id of the request in the slot, 0 if none
    ep,             \* whether the request carried a non-empty endpoint
    resp,           \* what the handler wrote: "none", "405", "400", "ok", "dup"
    logErr,         \* isUniqueID logged "Error checking ID in Redis"
    cnt,            \* the count carried by the slot's notification goroutine
    \* one ticker goroutine per instance
    aggPc,          \* "wait", "send" (WriteMessages issued), "del"
    aggKeys,        \* keys returned by KEYS and not yet deleted
    tries,          \* WriteMessages calls made in the current tick
    sent,           \* messages the broker accepted in the current tick
    \* start-up of each instance
    bootPc,         \* position in main
    attempts,       \* kafka.Dial attempts made by waitForKafka
    connected,      \* a kafka.Dial has succeeded
    pinged,         \* the Redis ping has succeeded
    aggStarted,     \* go logAndNotifyUniqueRequests() has run
    topicRes,       \* "none", "created", "failed"
    topicExists,    \* the broker has the topic
    \* bookkeeping of what happened, read by the properties only
    watch,          \* which of the records below the specification keeps
    wins,           \* per key: Claims that returned true for the present record
    counted,        \* per key: counts handed to the publisher that include the present record
    claimedSince,   \* ids for which Claim returned true since the last enumeration
    gone,           \* per key: "ttl", "drain" or "drop" from the removal of its record to
                    \* the next Claim of it, then "back" if that Claim returned true
    skipped,        \* per ticker goroutine: "skipped" when its last tick logged
                    \* "Error fetching keys from Redis", "resumed" when the tick
                    \* after such a one has enumerated the store
    \* the baseline program (main.go of the parent folder), one process
    uniqueRequests, \* the ids held by the sync.Map
    mu,             \* who holds the mutex: <<>>, <<"h", r>> or <<"t">>
    bpc,            \* per handler slot: "idle", "lock", "store", "unlock", "lock2",
                    \* "range", "unlock2", "get"
    bid,            \* the parsed id of the request in the slot, 0 if none
    bep,            \* whether the request carried a non-empty endpoint
    bcnt,           \* the count the handler computed for the notification
    tpc,            \* the ticker goroutine: "wait", "lock", "range", "reset",
                    \* "unlock", "log"
    tcount,         \* its count
    \* bookkeeping of the baseline program, read by the properties only
    pending,        \* per id: Store calls no count has covered yet (at most 2 kept)
    lastStores      \* Store calls covered by the count being logged

reqVars == <<pc, req, id, ep, resp, logErr, cnt>>
aggVars == <<aggPc, aggKeys, tries, sent>>
bootVars == <<bootPc, attempts, connected, pinged, aggStarted, topicRes, topicExists>>
ghostVars == <<watch, wins, counted, claimedSince, gone, skipped>>
baseVars == <<uniqueRequests, mu, bpc, bid, bep, bcnt, tpc, tcount, pending, lastStores>>
extVars == <<store, storeUp, reqVars, aggVars, bootVars, ghostVars>>
vars == <<extVars, baseVars>>

\* ------------------------------------------------------------ Redis
\* SET key value NX EX 60: err when the store is unreachable, otherwise
\* val tells whether the key was created
SetNXAlways(s, up, k) == [err |-> ~up, val |-> up, store |-> IF up THEN s \cup {k} ELSE s]

SetNX(s, up, k) ==
    [err |-> ~up,
     val |-> up /\ k \notin s,
     store |-> IF up THEN s \cup {k} ELSE s]

\* KEYS *: every key of the database
KeysCmd(s, up) == [err |-> ~up, val |-> IF up THEN s ELSE {}]

DelCmdKeeps(s, up, k) == s

DelCmdFlush(s, up, k) == IF up THEN {} ELSE s

\* DEL key
DelCmd(s, up, k) == IF up THEN s \ {k} ELSE s

\* ------------------------------------------------------------ isUniqueID
IsUniqueFailOpen(r) == IF r.err THEN TRUE ELSE r.val

IsUniqueNegated(r) == IF r.err THEN FALSE ELSE ~r.val

\* lines 170-174: an error is logged and reported as not unique
IsUniqueResult(r) == IF r.err THEN FALSE ELSE r.val

\* ------------------------------------------------------------ acceptHandler
ValidateAnyMethod(q) ==
    LET a == Atoi(q.idParam)
    IN  IF a.err \/ a.val <= 0 THEN [status |-> "400", id |-> 0]
        ELSE [status |-> "pass", id |-> a.val]

\* lines 179-192: method check, then id parsed and required to be positive
Validate(q) ==
    IF q.method # "GET" THEN [status |-> "405", id |-> 0]
    ELSE LET a == Atoi(q.idParam)
         IN  IF a.err \/ a.val <= 0 THEN [status |-> "400", id |-> 0]
             ELSE [status |-> "pass", id |-> a.val]

ClaimBodySwapped(unique) == IF unique THEN "dup" ELSE "ok"

\* lines 194-201: the body written after isUniqueID returns
ClaimBody(unique) == IF unique THEN "ok" ELSE "dup"

\* the outcome of lines 179-192 for each request
Verdict == [q \in Requests |-> Validate(q)]

\* the slot of a handler that has returned: the last exchange stays readable
\* in a specification that keeps it
Done(f, r, empty) == [f EXCEPT ![r] = IF "resp" \in watch THEN @ ELSE empty]

\* acceptHandler has been entered for the request in slot r and has not
\* returned: it waits for SETNX (line 169) or for KEYS (line 204)
InHandler(r) == pc[r] \in {"claim", "keys"}

\* the goroutine started at line 207 runs sendCountToEndpoint
InTask(r) == pc[r] = "post"

\* a request q reaches handler slot r: lines 178-192 run without blocking.
\* A specification that keeps requests leaves a rejected one and its answer
\* in the slot
Arrive(r, q) ==
    /\ pc[r] = "idle"
    /\ bootPc[InstOf(r)] = "serving"
    /\ LET v == Verdict[q]
       IN  IF v.status = "pass"
           THEN /\ pc' = [pc EXCEPT ![r] = "claim"]
                /\ id' = [id EXCEPT ![r] = v.id]
                /\ ep' = [ep EXCEPT ![r] = q.endpoint # ""]
                /\ resp' = [resp EXCEPT ![r] = "none"]
           ELSE /\ resp' = [resp EXCEPT ![r] = IF watch \cap {"resp", "req"} # {}
                                               THEN v.status ELSE "none"]
                /\ id' = [id EXCEPT ![r] = 0]
                /\ ep' = [ep EXCEPT ![r] = FALSE]
                /\ pc' = pc
    /\ req' = [req EXCEPT ![r] = IF "req" \in watch THEN q ELSE NoReq]
    /\ logErr' = [logErr EXCEPT ![r] = FALSE]
    /\ UNCHANGED <<baseVars, store, storeUp, cnt, aggVars, bootVars, ghostVars>>

\* the SETNX of isUniqueID completes and the handler writes its response;
\* without an endpoint, or on a duplicate, the handler returns
Claim(r) ==
    /\ pc[r] = "claim"
    /\ LET k == Itoa(id[r])
           res == SetNX(store, storeUp, k)
           unique == IsUniqueResult(res)
           more == unique /\ ep[r]
       IN  /\ store' = res.store
           /\ pc' = [pc EXCEPT ![r] = IF more THEN "keys" ELSE "idle"]
           /\ logErr' = IF more THEN [logErr EXCEPT ![r] = res.err]
                        ELSE Done([logErr EXCEPT ![r] = res.err], r, FALSE)
           /\ resp' = IF more THEN [resp EXCEPT ![r] = ClaimBody(unique)]
                      ELSE Done([resp EXCEPT ![r] = ClaimBody(unique)], r, "none")
           /\ id' = IF more THEN id ELSE Done(id, r, 0)
           /\ ep' = [ep EXCEPT ![r] = more]
           /\ req' = [req EXCEPT ![r] = NoReq]
           /\ wins' = [wins EXCEPT ![k] = IF res.val /\ @ < 2 THEN @ + 1 ELSE @]
           /\ claimedSince' = IF unique /\ "window" \in watch
                              THEN claimedSince \cup {id[r]} ELSE claimedSince
           /\ gone' = [gone EXCEPT ![k] = IF unique /\ @ # "no" THEN "back"
                                          ELSE IF k \in store THEN @ ELSE "no"]
    /\ UNCHANGED <<baseVars, storeUp, cnt, aggVars, bootVars, watch, counted, skipped>>

NotifyAnswersError(r) ==
    /\ pc[r] = "keys"
    /\ LET res == KeysCmd(store, storeUp)
       IN  /\ cnt' = [cnt EXCEPT ![r] = Cardinality(res.val)]
           /\ resp' = [resp EXCEPT ![r] = IF res.err THEN "500" ELSE @]
    /\ pc' = [pc EXCEPT ![r] = "post"]
    /\ id' = Done(id, r, 0)
    /\ UNCHANGED <<baseVars, store, storeUp, req, ep, logErr, aggVars, bootVars, ghostVars>>

\* lines 204-207: KEYS (its error is dropped), then the goroutine is started
\* and the handler returns
Notify(r) ==
    /\ pc[r] = "keys"
    /\ LET res == KeysCmd(store, storeUp)
       IN  cnt' = [cnt EXCEPT ![r] = Cardinality(res.val)]
    /\ pc' = [pc EXCEPT ![r] = "post"]
    /\ id' = Done(id, r, 0)
    /\ UNCHANGED <<baseVars, store, storeUp, req, ep, resp, logErr, aggVars, bootVars, ghostVars>>

\* sendCountToEndpoint: one http.Post, whatever its outcome
SendCount(r) ==
    /\ pc[r] = "post"
    /\ pc' = [pc EXCEPT ![r] = "idle"]
    /\ cnt' = [cnt EXCEPT ![r] = 0]
    /\ ep' = [ep EXCEPT ![r] = FALSE]
    /\ id' = Done(id, r, 0)
    /\ resp' = Done(resp, r, "none")
    /\ UNCHANGED <<baseVars, store, storeUp, req, logErr, aggVars, bootVars, ghostVars>>

\* ------------------------------------------------------------ the ticker goroutine
Cap2(n) == IF n < 2 THEN n + 1 ELSE n

\* what is kept about a tick: whether its KEYS failed, in a specification
\* that keeps it
Skip(g, err) ==
    IF "tick" \notin watch THEN g
    ELSE IF err THEN "skipped"
    ELSE IF g = "skipped" THEN "resumed"
    ELSE "no"

TickStopsOnError(a) ==
    /\ aggPc[a] = "wait"
    /\ aggStarted[a]
    /\ bootPc[a] \in {"listen", "serving"}
    /\ LET res == KeysCmd(store, storeUp)
       IN  /\ aggKeys' = [aggKeys EXCEPT ![a] = res.val]
           /\ aggPc' = [aggPc EXCEPT ![a] = IF res.err THEN "stopped" ELSE "send"]
           /\ tries' = [tries EXCEPT ![a] = 0]
           /\ sent' = [sent EXCEPT ![a] = 0]
           /\ counted' = [k \in Keys |->
                            IF k \in res.val /\ "counted" \in watch
                            THEN Cap2(counted[k]) ELSE counted[k]]
           /\ claimedSince' = {}
           /\ skipped' = [skipped EXCEPT ![a] = Skip(@, res.err)]
           /\ UNCHANGED <<watch, wins, gone>>
    /\ UNCHANGED <<baseVars, store, storeUp, reqVars, bootVars>>

TickDeletesFirst(a) ==
    /\ aggPc[a] = "wait"
    /\ aggStarted[a]
    /\ bootPc[a] \in {"listen", "serving"}
    /\ LET res == KeysCmd(store, storeUp)
       IN  IF res.err
           THEN /\ skipped' = [skipped EXCEPT ![a] = Skip(@, TRUE)]
                /\ UNCHANGED <<aggVars, watch, wins, counted, claimedSince, gone>>
           ELSE /\ aggKeys' = [aggKeys EXCEPT ![a] = res.val]
                /\ aggPc' = [aggPc EXCEPT ![a] = IF res.val = {} THEN "send" ELSE "del"]
                /\ tries' = [tries EXCEPT ![a] = 0]
                /\ sent' = [sent EXCEPT ![a] = 0]
                /\ counted' = [k \in Keys |->
                                 IF k \in res.val /\ "counted" \in watch
                                 THEN Cap2(counted[k]) ELSE counted[k]]
                /\ claimedSince' = {}
                /\ skipped' = [skipped EXCEPT ![a] = Skip(@, FALSE)]
                /\ UNCHANGED <<watch, wins, gone>>
    /\ UNCHANGED <<baseVars, store, storeUp, reqVars, bootVars>>

\* a tick arrives: KEYS *, count := len(keys), publishToKafka(count) is entered
\* (lines 125-135, up to the blocking WriteMessages); a failed KEYS skips the tick
Tick(a) ==
    /\ aggPc[a] = "wait"
    /\ aggStarted[a]
    /\ bootPc[a] \in {"listen", "serving"}
    /\ LET res == KeysCmd(store, storeUp)
       IN  IF res.err
           THEN /\ skipped' = [skipped EXCEPT ![a] = Skip(@, TRUE)]
                /\ UNCHANGED <<aggVars, watch, wins, counted, claimedSince, gone>>
           ELSE /\ aggKeys' = [aggKeys EXCEPT ![a] = res.val]
                /\ aggPc' = [aggPc EXCEPT ![a] = "send"]
                /\ tries' = [tries EXCEPT ![a] = 0]
                /\ sent' = [sent EXCEPT ![a] = 0]
                /\ counted' = [k \in Keys |->
                                 IF k \in res.val /\ "counted" \in watch
                                 THEN Cap2(counted[k]) ELSE counted[k]]
                /\ claimedSince' = {}
                /\ skipped' = [skipped EXCEPT ![a] = Skip(@, FALSE)]
                /\ UNCHANGED <<watch, wins, gone>>
    /\ UNCHANGED <<baseVars, store, storeUp, reqVars, bootVars>>

\* the position of the ticker goroutine after publishToKafka returns
AfterSend(ks) == IF ks = {} THEN "wait" ELSE "del"

\* skipped describes the tick in progress or the last skipped one
Rest(g, nxt) == IF nxt = "wait" THEN "no" ELSE g

\* tries and sent describe the tick in progress, in a specification that keeps them
Kept(nxt, n) == IF nxt = "wait" \/ "send" \notin watch THEN 0 ELSE n

PublishRetry(a) ==
    /\ aggPc[a] = "send"
    /\ \E ok \in BOOLEAN :
          LET nxt == IF ok \/ tries[a] > 0 THEN AfterSend(aggKeys[a]) ELSE "send"
          IN  /\ aggPc' = [aggPc EXCEPT ![a] = nxt]
              /\ tries' = [tries EXCEPT ![a] = Kept(nxt, Cap2(@))]
              /\ sent' = [sent EXCEPT ![a] = Kept(nxt, IF ok THEN Cap2(@) ELSE @)]
              /\ skipped' = [skipped EXCEPT ![a] = Rest(@, nxt)]
    /\ UNCHANGED <<baseVars, store, storeUp, aggKeys, reqVars, bootVars,
                   watch, wins, counted, claimedSince, gone>>

\* publishToKafka, lines 109-117: WriteMessages returns; its error is only logged
Publish(a) ==
    /\ aggPc[a] = "send"
    /\ \E ok \in BOOLEAN :
          LET nxt == AfterSend(aggKeys[a])
          IN  /\ aggPc' = [aggPc EXCEPT ![a] = nxt]
              /\ tries' = [tries EXCEPT ![a] = Kept(nxt, Cap2(@))]
              /\ sent' = [sent EXCEPT ![a] = Kept(nxt, IF ok THEN Cap2(@) ELSE @)]
              /\ skipped' = [skipped EXCEPT ![a] = Rest(@, nxt)]
    /\ UNCHANGED <<baseVars, store, storeUp, aggKeys, reqVars, bootVars,
                   watch, wins, counted, claimedSince, gone>>

\* what is known about key k once the store may have dropped it
Forget(f, k, s) == [f EXCEPT ![k] = IF k \in s THEN @ ELSE 0]

\* what is kept about a record that a DEL has removed: that a drain removed
\* it, or that a drain removed it although no count had included it
Removed(g, removed, n) ==
    IF removed /\ "drop" \in watch /\ n = 0 THEN "drop"
    ELSE IF removed /\ "gone" \in watch THEN "drain"
    ELSE IF removed THEN "no"
    ELSE g

Del(a, k) ==
    /\ aggPc[a] = "del"
    /\ k \in aggKeys[a]
    /\ store' = DelCmd(store, storeUp, k)
    /\ aggKeys' = [aggKeys EXCEPT ![a] = @ \ {k}]
    /\ aggPc' = [aggPc EXCEPT ![a] = IF aggKeys[a] = {k} THEN "wait" ELSE "del"]
    /\ tries' = [tries EXCEPT ![a] = IF aggKeys[a] = {k} THEN 0 ELSE @]
    /\ sent' = [sent EXCEPT ![a] = IF aggKeys[a] = {k} THEN 0 ELSE @]
    /\ wins' = Forget(wins, k, store')
    /\ counted' = Forget(counted, k, store')
    /\ gone' = [gone EXCEPT ![k] = Removed(@, k \in store /\ k \notin store', counted[k])]
    /\ skipped' = [skipped EXCEPT ![a] = Rest(@, IF aggKeys[a] = {k} THEN "wait" ELSE "del")]
    /\ UNCHANGED <<baseVars, storeUp, reqVars, bootVars, watch, claimedSince>>

\* ------------------------------------------------------------ the environment
\* the one-minute TTL set by SETNX runs out
Expire(k) ==
    /\ k \in store \cap ClaimKeys
    /\ store' = store \ {k}
    /\ wins' = Forget(wins, k, store')
    /\ counted' = Forget(counted, k, store')
    /\ gone' = [gone EXCEPT ![k] = IF "gone" \in watch THEN "ttl" ELSE "no"]
    /\ UNCHANGED <<baseVars, storeUp, reqVars, aggVars, bootVars, watch, claimedSince, skipped>>

StoreFail ==
    /\ storeUp
    /\ storeUp' = FALSE
    /\ UNCHANGED <<baseVars, store, reqVars, aggVars, bootVars, ghostVars>>

StoreRecover ==
    /\ ~storeUp
    /\ storeUp' = TRUE
    /\ UNCHANGED <<baseVars, store, reqVars, aggVars, bootVars, ghostVars>>

\* ------------------------------------------------------------ main
Fatal == {"fatalRedis", "fatalKafka", "fatalDial", "fatalListen"}

PingIgnoresError(i) ==
    /\ bootPc[i] = "initRedis"
    /\ pinged' = [pinged EXCEPT ![i] = storeUp]
    /\ bootPc' = [bootPc EXCEPT ![i] = "waitKafka"]
    /\ UNCHANGED <<baseVars, store, storeUp, reqVars, aggVars, ghostVars,
                   attempts, connected, aggStarted, topicRes, topicExists>>

\* initRedis, lines 35-37
Ping(i) ==
    /\ bootPc[i] = "initRedis"
    /\ pinged' = [pinged EXCEPT ![i] = storeUp]
    /\ bootPc' = [bootPc EXCEPT ![i] = IF storeUp THEN "waitKafka" ELSE "fatalRedis"]
    /\ UNCHANGED <<baseVars, store, storeUp, reqVars, aggVars, ghostVars,
                   attempts, connected, aggStarted, topicRes, topicExists>>

WaitStepNoLimit(n, ok) == IF ok THEN "dial" ELSE "waitKafka"

\* waitForKafka and lines 72-75: where main goes after attempt number n + 1
WaitStep(n, ok) ==
    IF ok THEN "dial"
    ELSE IF n + 1 < KafkaRetries THEN "waitKafka"
    ELSE "fatalKafka"

\* one iteration of the loop of waitForKafka
DialTry(i) ==
    /\ bootPc[i] = "waitKafka"
    /\ \E ok \in BOOLEAN :
          /\ attempts' = [attempts EXCEPT ![i] = @ + 1]
          /\ connected' = [connected EXCEPT ![i] = ok]
          /\ bootPc' = [bootPc EXCEPT ![i] = WaitStep(attempts[i], ok)]
    /\ UNCHANGED <<baseVars, store, storeUp, reqVars, aggVars, ghostVars,
                   pinged, aggStarted, topicRes, topicExists>>

\* createKafkaTopic, lines 77-80: the second kafka.Dial
Dial(i) ==
    /\ bootPc[i] = "dial"
    /\ \E ok \in BOOLEAN :
          bootPc' = [bootPc EXCEPT ![i] = IF ok THEN "createTopic" ELSE "fatalDial"]
    /\ UNCHANGED <<baseVars, store, storeUp, reqVars, aggVars, ghostVars,
                   attempts, connected, pinged, aggStarted, topicRes, topicExists>>

TopicStepFatal(res) == IF res = "created" THEN "spawn" ELSE "fatalDial"

\* lines 89-93 and the return to main: both outcomes are only logged
TopicStep(res) == "spawn"

\* createKafkaTopic, lines 84-88: CreateTopics fails on an existing topic
\* and may fail for any other reason
CreateTopic(i) ==
    /\ bootPc[i] = "createTopic"
    /\ \E ok \in BOOLEAN :
          LET res == IF ok /\ ~topicExists THEN "created" ELSE "failed"
          IN  /\ topicRes' = [topicRes EXCEPT ![i] = res]
              /\ topicExists' = (topicExists \/ res = "created")
              /\ bootPc' = [bootPc EXCEPT ![i] = TopicStep(res)]
    /\ UNCHANGED <<baseVars, store, storeUp, reqVars, aggVars, ghostVars,
                   attempts, connected, pinged, aggStarted>>

\* main, line 220
Spawn(i) ==
    /\ bootPc[i] = "spawn"
    /\ aggStarted' = [aggStarted EXCEPT ![i] = TRUE]
    /\ bootPc' = [bootPc EXCEPT ![i] = "listen"]
    /\ UNCHANGED <<baseVars, store, storeUp, reqVars, aggVars, ghostVars,
                   attempts, connected, pinged, topicRes, topicExists>>

\* main, lines 222-229: the listener is bound, or ListenAndServe returns an error
Listen(i) ==
    /\ bootPc[i] = "listen"
    /\ \E ok \in BOOLEAN :
          bootPc' = [bootPc EXCEPT ![i] = IF ok THEN "serving" ELSE "fatalListen"]
    /\ UNCHANGED <<baseVars, store, storeUp, reqVars, aggVars, ghostVars,
                   attempts, connected, pinged, aggStarted, topicRes, topicExists>>

\* ------------------------------------------------------------ the baseline program
\* main.go of the parent folder: the ids are kept in a sync.Map of the one
\* process, every access to it is made between mu.Lock and mu.Unlock, and
\* the ticker goroutine logs the count.  Its handler validates as
\* acceptHandler above does (lines 69-82 are the same code).
Free == <<>>

ByHandler(r) == <<"h", r>>

ByTicker == <<"t">>

\* a request q reaches handler slot r: lines 68-82
BArrive(r, q) ==
    /\ bpc[r] = "idle"
    /\ LET v == Verdict[q]
       IN  IF v.status = "pass"
           THEN /\ bpc' = [bpc EXCEPT ![r] = "lock"]
                /\ bid' = [bid EXCEPT ![r] = v.id]
                /\ bep' = [bep EXCEPT ![r] = q.endpoint # ""]
           ELSE UNCHANGED <<bpc, bid, bep>>
    /\ UNCHANGED <<extVars, uniqueRequests, mu, bcnt, tpc, tcount, pending, lastStores>>

BLockNoWait(r) ==
    /\ bpc[r] \in {"lock", "lock2"}
    /\ mu' = ByHandler(r)
    /\ bpc' = [bpc EXCEPT ![r] = IF @ = "lock" THEN "store" ELSE "range"]
    /\ UNCHANGED <<extVars, uniqueRequests, bid, bep, bcnt, tpc, tcount, pending, lastStores>>

\* mu.Lock() of line 85 or of line 94 returns
BLock(r) ==
    /\ bpc[r] \in {"lock", "lock2"}
    /\ mu = Free
    /\ mu' = ByHandler(r)
    /\ bpc' = [bpc EXCEPT ![r] = IF @ = "lock" THEN "store" ELSE "range"]
    /\ UNCHANGED <<extVars, uniqueRequests, bid, bep, bcnt, tpc, tcount, pending, lastStores>>

\* line 86: uniqueRequests.Store(id, true)
BStore(r) ==
    /\ bpc[r] = "store"
    /\ uniqueRequests' = uniqueRequests \cup {bid[r]}
    /\ pending' = [pending EXCEPT ![bid[r]] = Cap2(@)]
    /\ bpc' = [bpc EXCEPT ![r] = "unlock"]
    /\ UNCHANGED <<extVars, mu, bid, bep, bcnt, tpc, tcount, lastStores>>

\* lines 87-92: mu.Unlock(), "ok" is written, and the handler returns unless
\* the request carried an endpoint
BUnlock(r) ==
    /\ bpc[r] = "unlock"
    /\ mu' = Free
    /\ bpc' = [bpc EXCEPT ![r] = IF bep[r] THEN "lock2" ELSE "idle"]
    /\ bid' = [bid EXCEPT ![r] = 0]
    /\ UNCHANGED <<extVars, uniqueRequests, bep, bcnt, tpc, tcount, pending, lastStores>>

\* lines 95-99: the Range that counts the ids for the notification
BRange(r) ==
    /\ bpc[r] = "range"
    /\ bcnt' = [bcnt EXCEPT ![r] = Cardinality(uniqueRequests)]
    /\ bpc' = [bpc EXCEPT ![r] = "unlock2"]
    /\ UNCHANGED <<extVars, uniqueRequests, mu, bid, bep, tpc, tcount, pending, lastStores>>

\* lines 100-103: mu.Unlock(), the goroutine is started and the handler returns
BUnlock2(r) ==
    /\ bpc[r] = "unlock2"
    /\ mu' = Free
    /\ bpc' = [bpc EXCEPT ![r] = "get"]
    /\ UNCHANGED <<extVars, uniqueRequests, bid, bep, bcnt, tpc, tcount, pending, lastStores>>

\* sendCountToEndpoint of the baseline, lines 46-65: one http.Get
BSendCount(r) ==
    /\ bpc[r] = "get"
    /\ bpc' = [bpc EXCEPT ![r] = "idle"]
    /\ bep' = [bep EXCEPT ![r] = FALSE]
    /\ bcnt' = [bcnt EXCEPT ![r] = 0]
    /\ UNCHANGED <<extVars, uniqueRequests, mu, bid, tpc, tcount, pending, lastStores>>

\* line 31: a tick arrives and the goroutine calls mu.Lock()
BTick ==
    /\ tpc = "wait"
    /\ tpc' = "lock"
    /\ UNCHANGED <<extVars, uniqueRequests, mu, bpc, bid, bep, bcnt, tcount, pending, lastStores>>

\* line 32: mu.Lock() returns
TLock ==
    /\ tpc = "lock"
    /\ mu = Free
    /\ mu' = ByTicker
    /\ tpc' = "range"
    /\ UNCHANGED <<extVars, uniqueRequests, bpc, bid, bep, bcnt, tcount, pending, lastStores>>

\* the Store calls that a count of the ids in m covers
RECURSIVE Covered(_)
Covered(m) ==
    IF m = {} THEN 0
    ELSE LET i == CHOOSE j \in m : TRUE
         IN  pending[i] + Covered(m \ {i})

\* lines 33-37: count := the number of ids in the map
TRange ==
    /\ tpc = "range"
    /\ tcount' = Cardinality(uniqueRequests)
    /\ lastStores' = Covered(uniqueRequests)
    /\ pending' = [i \in Ids |-> IF i \in uniqueRequests THEN 0 ELSE pending[i]]
    /\ tpc' = "reset"
    /\ UNCHANGED <<extVars, uniqueRequests, mu, bpc, bid, bep, bcnt>>

\* line 39: uniqueRequests = sync.Map{}
TReset ==
    /\ tpc = "reset"
    /\ uniqueRequests' = {}
    /\ tpc' = "unlock"
    /\ UNCHANGED <<extVars, mu, bpc, bid, bep, bcnt, tcount, pending, lastStores>>

\* line 40: mu.Unlock()
TUnlock ==
    /\ tpc = "unlock"
    /\ mu' = Free
    /\ tpc' = "log"
    /\ UNCHANGED <<extVars, uniqueRequests, bpc, bid, bep, bcnt, tcount, pending, lastStores>>

\* line 42: the count is logged and the goroutine waits for the next tick
TLog ==
    /\ tpc = "log"
    /\ tpc' = "wait"
    /\ tcount' = 0
    /\ lastStores' = 0
    /\ UNCHANGED <<extVars, uniqueRequests, mu, bpc, bid, bep, bcnt, pending>>

\* ------------------------------------------------------------ specifications
InitShared ==
    /\ storeUp = TRUE
    /\ pc = [r \in Req |-> "idle"]
    /\ req = [r \in Req |-> NoReq]
    /\ id = [r \in Req |-> 0]
    /\ ep = [r \in Req |-> FALSE]
    /\ resp = [r \in Req |-> "none"]
    /\ logErr = [r \in Req |-> FALSE]
    /\ cnt = [r \in Req |-> 0]
    /\ aggPc = [a \in Inst |-> "wait"]
    /\ aggKeys = [a \in Inst |-> {}]
    /\ tries = [a \in Inst |-> 0]
    /\ sent = [a \in Inst |-> 0]
    /\ wins = [k \in Keys |-> 0]
    /\ counted = [k \in Keys |-> 0]
    /\ claimedSince = {}
    /\ gone = [k \in Keys |-> "no"]
    /\ skipped = [a \in Inst |-> "no"]
    /\ uniqueRequests = {}
    /\ mu = Free
    /\ bpc = [r \in Req |-> "idle"]
    /\ bid = [r \in Req |-> 0]
    /\ bep = [r \in Req |-> FALSE]
    /\ bcnt = [r \in Req |-> 0]
    /\ tpc = "wait"
    /\ tcount = 0
    /\ pending = [i \in Ids |-> 0]
    /\ lastStores = 0

\* every instance has completed main and serves; the store holds no key
InitServing ==
    /\ InitShared
    /\ store = {}
    /\ bootPc = [i \in Inst |-> "serving"]
    /\ attempts = [i \in Inst |-> 1]
    /\ connected = [i \in Inst |-> TRUE]
    /\ pinged = [i \in Inst |-> TRUE]
    /\ aggStarted = [i \in Inst |-> TRUE]
    /\ topicRes = [i \in Inst |-> IF i = 1 THEN "created" ELSE "failed"]
    /\ topicExists = TRUE

\* the handlers' last exchanges are kept
Init == InitServing /\ watch = {"resp"}

\* how records went away is kept
InitGone == InitServing /\ watch = {"gone"}

\* the counts that include each record are kept
InitCount == InitServing /\ watch = {"counted"}

\* the ids claimed since the last enumeration are kept
InitWindow == InitServing /\ watch = {"window"}

\* the sends of each tick are kept
InitSend == InitServing /\ watch = {"send"}

\* the requests are kept
InitReq == InitServing /\ watch = {"req"}

\* the outcome of each ticker goroutine's last enumeration is kept
InitTick == InitServing /\ watch = {"tick"}

\* the counts that include each record and the records deleted uncounted are kept
InitDrop == InitServing /\ watch = {"counted", "drop"}

\* every instance serves and the Redis database holds, beside no record
\* yet, the key of another application
InitForeign ==
    /\ InitShared
    /\ watch = {}
    /\ store = ForeignKeys
    /\ bootPc = [i \in Inst |-> "serving"]
    /\ attempts = [i \in Inst |-> 1]
    /\ connected = [i \in Inst |-> TRUE]
    /\ pinged = [i \in Inst |-> TRUE]
    /\ aggStarted = [i \in Inst |-> TRUE]
    /\ topicRes = [i \in Inst |-> IF i = 1 THEN "created" ELSE "failed"]
    /\ topicExists = TRUE

\* one instance serves; the other exited at start-up after KafkaRetries
\* failed attempts, so there is one ticker goroutine
InitSingle ==
    /\ InitShared
    /\ watch = {"counted", "drop"}
    /\ store = {}
    /\ bootPc = [i \in Inst |-> IF i = 1 THEN "serving" ELSE "fatalKafka"]
    /\ attempts = [i \in Inst |-> IF i = 1 THEN 1 ELSE KafkaRetries]
    /\ connected = [i \in Inst |-> i = 1]
    /\ pinged = [i \in Inst |-> TRUE]
    /\ aggStarted = [i \in Inst |-> i = 1]
    /\ topicRes = [i \in Inst |-> IF i = 1 THEN "created" ELSE "none"]
    /\ topicExists = TRUE

\* the baseline program serves; no instance of the extended program runs
InitBase ==
    /\ InitShared
    /\ watch = {}
    /\ store = {}
    /\ bootPc = [i \in Inst |-> "initRedis"]
    /\ attempts = [i \in Inst |-> 0]
    /\ connected = [i \in Inst |-> FALSE]
    /\ pinged = [i \in Inst |-> FALSE]
    /\ aggStarted = [i \in Inst |-> FALSE]
    /\ topicRes = [i \in Inst |-> "none"]
    /\ topicExists = FALSE

\* every instance is at the first line of main
InitBoot ==
    /\ InitShared
    /\ watch = {}
    /\ store = {}
    /\ bootPc = [i \in Inst |-> "initRedis"]
    /\ attempts = [i \in Inst |-> 0]
    /\ connected = [i \in Inst |-> FALSE]
    /\ pinged = [i \in Inst |-> FALSE]
    /\ aggStarted = [i \in Inst |-> FALSE]
    /\ topicRes = [i \in Inst |-> "none"]
    /\ topicExists \in BOOLEAN

Next ==
    \/ \E r \in Req, q \in Requests : Arrive(r, q)
    \/ \E r \in Req : Claim(r)
    \/ \E r \in Req : Notify(r)
    \/ \E r \in Req : SendCount(r)
    \/ \E a \in Inst : Tick(a)
    \/ \E a \in Inst : Publish(a)
    \/ \E a \in Inst, k \in Keys : Del(a, k)
    \/ \E k \in Keys : Expire(k)
    \/ StoreFail
    \/ StoreRecover

\* the steps of the program while no TTL runs out and the store stays reachable
NextSingle ==
    \/ \E r \in Req, q \in Requests : Arrive(r, q)
    \/ \E r \in Req : Claim(r)
    \/ \E r \in Req : Notify(r)
    \/ \E r \in Req : SendCount(r)
    \/ \E a \in Inst : Tick(a)
    \/ \E a \in Inst : Publish(a)
    \/ \E a \in Inst, k \in Keys : Del(a, k)

NextBase ==
    \/ \E r \in Req, q \in Requests : BArrive(r, q)
    \/ \E r \in Req : BLock(r)
    \/ \E r \in Req : BStore(r)
    \/ \E r \in Req : BUnlock(r)
    \/ \E r \in Req : BRange(r)
    \/ \E r \in Req : BUnlock2(r)
    \/ \E r \in Req : BSendCount(r)
    \/ BTick
    \/ TLock
    \/ TRange
    \/ TReset
    \/ TUnlock
    \/ TLog

NextBoot ==
    \/ \E i \in Inst : Ping(i)
    \/ \E i \in Inst : DialTry(i)
    \/ \E i \in Inst : Dial(i)
    \/ \E i \in Inst : CreateTopic(i)
    \/ \E i \in Inst : Spawn(i)
    \/ \E i \in Inst : Listen(i)
    \/ StoreFail
    \/ StoreRecover

Spec == Init /\ [][Next]_vars

SpecGone == InitGone /\ [][Next]_vars

SpecCount == InitCount /\ [][Next]_vars

SpecWindow == InitWindow /\ [][Next]_vars

SpecSend == InitSend /\ [][Next]_vars

SpecReq == InitReq /\ [][Next]_vars

SpecDrop == InitDrop /\ [][Next]_vars

SpecTick == InitTick /\ [][Next]_vars

SpecForeign == InitForeign /\ [][Next]_vars

\* the ticker fires every minute, and WriteMessages and DEL return (the
\* Kafka writer and the Redis client give up on a call after their timeouts)
SpecSingle ==
    /\ InitSingle
    /\ [][NextSingle]_vars
    /\ \A a \in Inst :
          /\ WF_vars(Tick(a))
          /\ WF_vars(Publish(a))
          /\ WF_vars(\E k \in Keys : Del(a, k))

SpecBase == InitBase /\ [][NextBase]_vars

SpecBoot == InitBoot /\ [][NextBoot]_vars

TypeOK ==
    /\ store \subseteq Keys
    /\ pc \in [Req -> {"idle", "claim", "keys", "post"}]
    /\ id \in [Req -> 0..MaxId]
    /\ resp \in [Req -> {"none", "405", "400", "ok", "dup"}]
    /\ aggPc \in [Inst -> {"wait", "send", "del"}]
    /\ \A a \in Inst : aggKeys[a] \subseteq Keys

\* ------------------------------------------------------------ properties
\* the step in which the SETNX of handler r completes
ClaimStep(r) == pc[r] = "claim" /\ pc'[r] # "claim"

\* the step in which the ticker goroutine of a enumerates the store and
\* hands the count to publishToKafka
TickStep(a) == aggPc[a] = "wait" /\ aggPc'[a] = "send"

\* C1: while the store is reachable, a Claim of an identifier that has no
\* record returns true and the handler answers "ok"; a Claim of an identifier
\* whose record has not been removed returns false and the handler answers
\* the duplicate message.
C1_FirstClaimThenDuplicates ==
    [][\A r \in Req :
          ClaimStep(r) =>
              LET k == Itoa(id[r])
              IN  /\ (storeUp /\ k \notin store) =>
                        (resp'[r] = "ok" /\ wins'[k] = wins[k] + 1 /\ k \in store')
                  /\ (k \in store) =>
                        (resp'[r] = "dup" /\ wins'[k] = wins[k] /\ store' = store)]_vars

\* a first request got "ok", a later one for the same id the duplicate
\* message, and the record is still there
C1_Witness ==
    \E r1, r2 \in Req :
        /\ r1 # r2
        /\ id[r1] = 1 /\ id[r2] = 1
        /\ resp[r1] = "ok" /\ resp[r2] = "dup" /\ ~logErr[r2]
        /\ Itoa(1) \in store /\ storeUp

\* C2: whatever the interleaving of Claim calls of all instances, a call
\* made while the store is reachable returns true exactly when its own
\* identifier has no record, records of other identifiers play no part and
\* are left alone, and the record of an identifier has exactly one Claim
\* that returned true.
C2_OneWinnerPerIdentifier ==
    [][\A r \in Req :
          (ClaimStep(r) /\ storeUp) =>
              LET k == Itoa(id[r])
              IN  /\ (resp'[r] = "ok") <=> (k \notin store)
                  /\ wins'[k] = 1
                  /\ \A j \in Keys \ {k} :
                        (j \in store' <=> j \in store) /\ wins'[j] = wins[j]]_vars

\* two handlers of different instances claimed the same identifier: one
\* got "ok" and the other the duplicate message, and the other identifier's
\* record exists beside it
C2_Witness ==
    \E r1, r2 \in Req :
        /\ InstOf(r1) # InstOf(r2)
        /\ id[r1] = id[r2] /\ id[r1] \in Ids
        /\ resp[r1] = "ok" /\ resp[r2] = "dup" /\ ~logErr[r2]
        /\ wins[Itoa(id[r1])] = 1
        /\ store = ClaimKeys

\* C3: a Claim whose store operation fails is reported as not unique, with
\* a logged error, creates no record and leaves the process serving; a Claim
\* made while the store is reachable, also after an outage, returns true
\* exactly when the identifier has no record.
C3_ClaimFailsClosed ==
    [][\A r \in Req :
          ClaimStep(r) =>
              LET k == Itoa(id[r])
              IN  IF storeUp
                  THEN /\ (resp'[r] = "ok") <=> (k \notin store)
                       /\ ~logErr'[r]
                  ELSE /\ resp'[r] = "dup" /\ logErr'[r]
                       /\ store' = store /\ wins' = wins
                       /\ pc'[r] = "idle"
                       /\ bootPc' = bootPc]_vars

\* a Claim failed during an outage and was answered as a duplicate although
\* no record exists; the store is reachable again and another handler's
\* Claim is about to run
C3_Witness ==
    \E r1, r2 \in Req :
        /\ r1 # r2
        /\ logErr[r1] /\ resp[r1] = "dup" /\ id[r1] = 2
        /\ Itoa(2) \notin store
        /\ storeUp
        /\ pc[r2] = "claim" /\ id[r2] = 2

\* C4 as stated: at a tick during which no Claim is in flight and no other
\* drain is in progress, the count handed to the publisher is the number of
\* identifiers for which Claim returned true since the previous enumeration.
C4_CountIsClaimsSinceDrain ==
    [][\A a \in Inst :
          (/\ TickStep(a)
           /\ \A r \in Req : pc[r] # "claim"
           /\ \A b \in Inst \ {a} : aggPc[b] = "wait")
              => Cardinality(aggKeys'[a]) = Cardinality(claimedSince)]_vars

\* C5 as stated: the next Claim of an identifier whose record was removed by
\* its TTL or by a drain's DEL returns true.
C5_NextClaimAfterRemoval ==
    [][\A r \in Req :
          (ClaimStep(r) /\ gone[Itoa(id[r])] \in {"ttl", "drain"})
              => gone'[Itoa(id[r])] = "back"]_vars

\* C5 amended: the next Claim of an identifier whose record was removed by
\* its TTL or by a drain's DEL returns true if the store is reachable when it
\* is made, and creates the record again.
C5_NextClaimAfterRemovalWhileReachable ==
    [][\A r \in Req :
          (ClaimStep(r) /\ gone[Itoa(id[r])] \in {"ttl", "drain"} /\ storeUp)
              => (/\ wins'[Itoa(id[r])] = 1
                  /\ Itoa(id[r]) \in store'
                  /\ gone'[Itoa(id[r])] = "back")]_vars

\* identifier 1 was claimed again after its record was removed and is back
\* in the store; the record of identifier 2 has expired and is not claimed yet
C5_Witness ==
    /\ gone[Itoa(1)] = "back" /\ Itoa(1) \in store /\ wins[Itoa(1)] = 1
    /\ gone[Itoa(2)] = "ttl" /\ Itoa(2) \notin store

\* C6 as stated: no record is included in more than one count handed to the
\* publisher.
C6_RecordCountedAtMostOnce == \A k \in Keys : counted[k] <= 1

\* C7: waitForKafka makes at most KafkaRetries attempts and none after a
\* success; when all have failed the process has exited; the ticker
\* goroutine runs and ListenAndServe is reached only after a successful
\* attempt and a successful Redis ping.
C7_BootstrapRetry ==
    \A i \in Inst :
        /\ attempts[i] <= KafkaRetries
        /\ connected[i] => bootPc[i] # "waitKafka"
        /\ (attempts[i] = KafkaRetries /\ ~connected[i]) => bootPc[i] = "fatalKafka"
        /\ bootPc[i] = "fatalKafka" => (attempts[i] = KafkaRetries /\ ~aggStarted[i])
        /\ (aggStarted[i] \/ bootPc[i] \in {"listen", "serving"})
              => (connected[i] /\ pinged[i])

\* one instance serves after connecting on its last attempt, another has
\* exited after KafkaRetries failures
C7_Witness ==
    \E i, j \in Inst :
        /\ bootPc[i] = "serving" /\ attempts[i] = KafkaRetries /\ aggStarted[i]
        /\ bootPc[j] = "fatalKafka" /\ attempts[j] = KafkaRetries

\* C8: an instance whose topic creation failed does not exit because of it:
\* it starts the ticker goroutine and calls ListenAndServe, whose own error
\* is then the only exit left.
C8_TopicFailureNotFatal ==
    \A i \in Inst :
        topicRes[i] = "failed" =>
            /\ bootPc[i] \in {"spawn", "listen", "serving", "fatalListen"}
            /\ bootPc[i] # "spawn" => aggStarted[i]

\* the topic existed, creation failed, and the instance serves with its
\* ticker goroutine running
C8_Witness ==
    \E i \in Inst :
        topicRes[i] = "failed" /\ bootPc[i] = "serving" /\ aggStarted[i]

\* C9: a tick makes no send before WriteMessages returns and exactly one
\* once it has; the broker accepts at most one message per tick; a tick whose
\* send failed goes on to its deletes with nothing accepted.
C9_OneSendPerTick ==
    \A a \in Inst :
        /\ aggPc[a] = "send" => (tries[a] = 0 /\ sent[a] = 0)
        /\ aggPc[a] = "del" => (tries[a] = 1 /\ sent[a] <= 1)
        /\ aggPc[a] = "wait" => (tries[a] = 0 /\ sent[a] = 0)

\* a send failed and the tick is deleting, while another tick's send was
\* accepted
C9_Witness ==
    \E a, b \in Inst :
        /\ aggPc[a] = "del" /\ tries[a] = 1 /\ sent[a] = 0
        /\ aggPc[b] = "del" /\ tries[b] = 1 /\ sent[b] = 1

\* the id parameters that are missing, malformed, zero or negative
BadIdParams == {<<>>, <<"a", "b", "c">>, <<"-", "3">>, <<"0">>}

\* whether C10 says request q is rejected
IsBad(q) == q.method # "GET" \/ q.idParam \in BadIdParams

\* C10: a request that is not GET is answered 405 and a GET whose id is
\* missing, malformed, zero or negative is answered 400; neither reaches
\* isUniqueID: the handler returns at once, the store is unchanged and no
\* notification is started.
C10_RejectedWithoutClaim ==
    [][\A r \in Req :
          /\ (pc'[r] # "idle" /\ req'[r] # NoReq) => ~IsBad(req'[r])
          /\ (pc[r] = "idle" /\ req'[r] # req[r] /\ IsBad(req'[r])) =>
                /\ resp'[r] = IF req'[r].method # "GET" THEN "405" ELSE "400"
                /\ pc' = pc
                /\ store' = store /\ wins' = wins
                /\ cnt' = cnt]_vars

\* a POST was answered 405 and a GET with id=-3 was answered 400 while a
\* record exists
C10_Witness ==
    \E r1, r2 \in Req :
        /\ req[r1].method = "POST" /\ resp[r1] = "405"
        /\ req[r2].method = "GET" /\ req[r2].idParam = <<"-", "3">> /\ resp[r2] = "400"
        /\ pc[r1] = "idle" /\ pc[r2] = "idle"
        /\ store = {Itoa(1)}

\* C11 as stated: the handler of a valid request goes on to the notification
\* exactly when the request carried an endpoint, whatever isUniqueID
\* returned; the count it hands over is the number of keys in the store; the
\* POST is made once.
C11_NotifyWhateverClaimOutcome ==
    [][\A r \in Req :
          /\ ClaimStep(r) => ((pc'[r] = "keys") <=> ep[r])
          /\ (pc[r] = "keys" /\ pc'[r] = "post" /\ storeUp)
                => cnt'[r] = Cardinality(store)
          /\ (pc[r] = "post" /\ pc'[r] # "post") => pc'[r] = "idle"]_vars

\* C12: the response is written in the step in which isUniqueID returns; the
\* KEYS for the notification is issued only after "ok" has been written, no
\* count exists before that, and neither the KEYS nor the POST, whatever
\* their outcome, changes what was written.
C12_ResponseBeforeNotification ==
    [][\A r \in Req :
          /\ ClaimStep(r) =>
                /\ resp[r] = "none" /\ cnt[r] = 0
                /\ resp'[r] \in {"ok", "dup"}
                /\ cnt'[r] = 0
                /\ pc'[r] = "keys" => resp'[r] = "ok"
          /\ pc[r] \in {"keys", "post"} => (resp[r] = "ok" /\ resp'[r] = "ok")]_vars

\* a handler answered "ok", its KEYS failed during an outage and its POST is
\* pending with count 0; another handler's KEYS had succeeded before the
\* outage and its POST is pending with the count of both records
C12_Witness ==
    \E r1, r2 \in Req :
        /\ pc[r1] = "post" /\ resp[r1] = "ok" /\ cnt[r1] = 0 /\ ~storeUp
        /\ pc[r2] = "post" /\ resp[r2] = "ok" /\ cnt[r2] = 2

\* the step in which a DEL of the ticker goroutine of a removes the record k
DelStep(a, k) ==
    /\ aggPc[a] = "del" /\ k \in aggKeys[a] /\ k \notin aggKeys'[a]
    /\ k \in store /\ storeUp

\* C13: a record that no count has included, because it was written after
\* the enumeration of the tick that deletes it, is removed by that tick's DEL
\* all the same; nothing holds the identifier afterwards, and the next Claim
\* of it made while the store is reachable returns true.  The witness is the
\* execution the claim says exists.
C13_DrainDropsUncounted ==
    [][/\ \A a \in Inst, k \in Keys :
             (DelStep(a, k) /\ counted[k] = 0) => (k \notin store' /\ gone'[k] = "drop")
       /\ \A k \in Keys : gone'[k] = "drop" => k \notin store'
       /\ \A r \in Req :
             (ClaimStep(r) /\ gone[Itoa(id[r])] = "drop" /\ storeUp)
                => (/\ wins'[Itoa(id[r])] = 1
                    /\ Itoa(id[r]) \in store'
                    /\ gone'[Itoa(id[r])] = "back")]_vars

\* the record of identifier 1 was deleted without having been counted and
\* the identifier has been claimed again; the new record is uncounted too
C13_Witness ==
    /\ gone[Itoa(1)] = "back" /\ Itoa(1) \in store
    /\ wins[Itoa(1)] = 1 /\ counted[Itoa(1)] = 0

\* C14 as stated: when a tick hands its count to publishToKafka every
\* enumerated record has had its DEL, and every DEL of a tick is issued
\* before the tick's WriteMessages.
C14_DeleteBeforePublish ==
    [][\A a \in Inst :
          /\ TickStep(a) => aggKeys'[a] = {}
          /\ \A k \in Keys :
                (aggPc[a] = "del" /\ k \in aggKeys[a] /\ k \notin aggKeys'[a])
                    => tries[a] = 0]_vars

\* C14 amended: a tick enumerates, counts and enters publishToKafka with
\* every enumerated record still undeleted; no DEL is issued while
\* WriteMessages is pending; every DEL of the tick is issued after its one
\* WriteMessages has returned, accepted or not.
C14_PublishBeforeDelete ==
    [][\A a \in Inst :
          /\ TickStep(a) => (storeUp /\ aggKeys'[a] = store /\ store' = store)
          /\ aggPc[a] = "send" => (aggKeys'[a] = aggKeys[a] /\ tries[a] = 0)
          /\ aggPc'[a] = "del" => aggPc[a] \in {"send", "del"}
          /\ \A k \in Keys :
                (aggPc[a] = "del" /\ k \in aggKeys[a] /\ k \notin aggKeys'[a])
                    => tries[a] = 1]_vars

\* a tick that enumerated both records has sent its count and deleted the
\* record of identifier 1; the other instance's tick, which enumerated both
\* as well, is still waiting for WriteMessages
C14_Witness ==
    \E a, b \in Inst :
        /\ aggPc[a] = "del" /\ tries[a] = 1 /\ sent[a] = 1
        /\ aggKeys[a] = {Itoa(2)} /\ store = {Itoa(2)}
        /\ aggPc[b] = "send" /\ aggKeys[b] = ClaimKeys

\* C15: a tick whose KEYS fails leaves the ticker goroutine waiting for the
\* next tick with nothing enumerated, sent or deleted and the store as it
\* was.  The goroutine is never stopped: whatever WriteMessages and the DELs
\* return, a tick in progress has a next step to take (the pending
\* WriteMessages, or the DEL of a key still to delete), each DEL leaves fewer
\* keys to delete, and after the last one the goroutine waits for the next
\* tick.
C15_AggregatorNeverStops ==
    [][\A a \in Inst :
          /\ (aggPc[a] = "wait" /\ ~storeUp) =>
                /\ aggPc'[a] = "wait" /\ aggKeys'[a] = {}
                /\ tries'[a] = 0 /\ sent'[a] = 0
                /\ skipped'[a] # skipped[a] => (skipped'[a] = "skipped" /\ store' = store)
          /\ skipped'[a] = "skipped" => aggPc'[a] = "wait"
          /\ aggPc'[a] \in {"wait", "send", "del"}
          /\ aggPc'[a] = "del" => aggKeys'[a] # {}
          /\ aggPc'[a] = "wait" => aggKeys'[a] = {}
          /\ (aggPc[a] = "send" /\ aggPc'[a] # "send") =>
                aggPc'[a] = IF aggKeys[a] = {} THEN "wait" ELSE "del"
          /\ (aggPc[a] = "del" /\ aggKeys'[a] # aggKeys[a]) =>
                (aggKeys'[a] \subseteq aggKeys[a] /\ aggKeys'[a] # aggKeys[a])]_vars

\* a goroutine skipped a tick during an outage, enumerated the store at the
\* next tick and is now deleting during a second outage; the other
\* goroutine has just skipped a tick
C15_Witness ==
    \E a, b \in Inst :
        /\ skipped[a] = "resumed" /\ aggPc[a] = "del" /\ ~storeUp
        /\ skipped[b] = "skipped" /\ aggPc[b] = "wait"

\* C16 as stated: an instance has exited during start-up only if its Redis
\* ping failed or all KafkaRetries connection attempts failed.
C16_TwoFatalCases ==
    \A i \in Inst :
        bootPc[i] \in Fatal =>
            (~pinged[i] \/ (attempts[i] = KafkaRetries /\ ~connected[i]))

\* C16 amended: an instance has exited during start-up in one of four cases
\* only: its Redis ping failed; all KafkaRetries connection attempts failed;
\* the kafka.Dial made for the topic creation, after an attempt had
\* succeeded, failed; or ListenAndServe returned an error.  An instance past
\* initRedis has pinged, and a failed topic creation is none of the cases.
C16_FourFatalCases ==
    \A i \in Inst :
        /\ bootPc[i] # "initRedis" => (pinged[i] <=> bootPc[i] # "fatalRedis")
        /\ bootPc[i] \in Fatal =>
              \/ bootPc[i] = "fatalRedis" /\ ~pinged[i] /\ attempts[i] = 0
              \/ bootPc[i] = "fatalKafka" /\ attempts[i] = KafkaRetries /\ ~connected[i]
              \/ bootPc[i] = "fatalDial" /\ connected[i] /\ topicRes[i] = "none"
              \/ bootPc[i] = "fatalListen" /\ connected[i] /\ aggStarted[i]
                    /\ topicRes[i] # "none"

\* one instance exited because Redis was unreachable at its launch, another
\* because the kafka.Dial for the topic creation failed after its third
\* attempt had connected
C16_Witness ==
    \E i, j \in Inst :
        /\ bootPc[i] = "fatalRedis" /\ ~pinged[i]
        /\ bootPc[j] = "fatalDial" /\ connected[j] /\ attempts[j] = 3

\* C17 as stated: a handler that has not returned waits for its Claim call
\* and for nothing else; the KEYS for the notification and the POST are
\* pending only in the background task, after the handler has returned.
C17_OnlyClaimBlocksHandler ==
    \A r \in Req :
        /\ InHandler(r) => pc[r] = "claim"
        /\ pc[r] \in {"keys", "post"} => (InTask(r) /\ ~InHandler(r))

\* C18 as stated: no tick enumerates, and so none counts or deletes, a key
\* that no Claim created: such a key is never among the keys a tick has
\* counted and is deleting, and it stays in the store.
C18_DrainScopedToClaimRecords ==
    /\ \A a \in Inst : aggKeys[a] \subseteq ClaimKeys
    /\ ForeignKeys \subseteq store

\* C19: with one ticker goroutine, no TTL running out and the store
\* reachable, in every interleaving of Claims with the steps of a tick: no
\* record is in more than one count; a record leaves the store only by the
\* DEL of a tick that enumerated, and so counted, it (a record written after
\* the enumeration stays); and every record is in a count eventually.
C19_CountedExactlyOnce ==
    /\ [](\A k \in ClaimKeys : counted[k] <= 1)
    /\ [][\A k \in ClaimKeys :
             (k \in store /\ k \notin store') =>
                 /\ \E a \in Inst : DelStep(a, k)
                 /\ counted[k] = 1
                 /\ gone'[k] # "drop"]_vars
    /\ \A k \in ClaimKeys : (k \in store) ~> (k \in store /\ counted[k] = 1)

\* the tick has counted the record of identifier 1 and is deleting; the
\* record of identifier 2, written after the enumeration, is in the store,
\* is not among the keys to delete and is in no count yet
C19_Witness ==
    /\ aggPc[1] = "del" /\ aggKeys[1] = {Itoa(1)} /\ counted[Itoa(1)] = 1
    /\ Itoa(2) \in store /\ counted[Itoa(2)] = 0 /\ wins[Itoa(2)] = 1

\* C20: in the baseline program a handler between its Lock and its Unlock,
\* and the ticker goroutine between its Lock and its Unlock, hold mu alone;
\* an id whose Store no count has covered is in the map, so the next count
\* covers it; an id is in the map after a count covered it only until the
\* reset made under the same lock, so no later count covers that Store
\* again; and each count is the number of distinct ids stored since the
\* count before, however many times each was stored.
C20_BaselineCountsEachStoreOnce ==
    /\ [](/\ \A r \in Req :
                bpc[r] \in {"store", "unlock", "range", "unlock2"} => mu = ByHandler(r)
          /\ tpc \in {"range", "reset", "unlock"} => mu = ByTicker
          /\ \A i \in Ids : pending[i] > 0 => i \in uniqueRequests
          /\ (\E i \in uniqueRequests : pending[i] = 0) => tpc = "reset")
    /\ [][(tpc = "range" /\ tpc' = "reset") =>
             /\ tcount' = Cardinality({i \in Ids : pending[i] > 0})
             /\ lastStores' = Covered(Ids)
             /\ \A i \in Ids : pending'[i] = 0]_vars

\* identifier 1 was stored twice before the tick, whose count of 1 is being
\* logged; identifier 2 was stored after the reset and waits for the next
\* count
C20_Witness ==
    /\ tpc = "log" /\ tcount = 1 /\ lastStores = 2
    /\ uniqueRequests = {2} /\ pending[2] = 1 /\ pending[1] = 0

====
